---- MODULE Spec2Model ----
(***************************************************************************)
(* Model of the four maintenance scripts of the snapzify repository:       *)
(*   add_pinyin_openai.py, add_chinese_processing.py  (project manifest)   *)
(*   fix_logging.py, fix_app_logging.py               (log statements)     *)
(*                                                                         *)
(* A text is a sequence of tokens.  A token stands for a fixed piece of    *)
(* text; the pieces are cut so that every literal of every regular         *)
(* expression of the scripts begins and ends on a token border.            *)
(***************************************************************************)
EXTENDS Integers, Sequences, FiniteSets

VARIABLES
  disk,      \* the text of the file the scripts open
  content,   \* the script's variable `content`
  script,    \* the script that is running, "none" between runs
  pc,        \* position in the script
  applied,   \* names of the re.sub calls executed in this run, in order
  exit_code, \* exit status of the run, -1 while it has not ended
  message,   \* what the last finished run printed
  input,     \* what f.read() returned in this run
  wrote,     \* whether f.write() was executed in this run
  prev       \* the previous run: its script, input, output and message

vars == <<disk, content, script, pc, applied, exit_code, message, input, wrote, prev>>

\* Largest number of copies of an anchor's record in one section of an input manifest.
MaxCopies == 2

\* Largest number of pieces in the message of a log statement.
MaxMsgLen == 3

(***************************************************************************)
(* Tokens of a project manifest                                            *)
(***************************************************************************)
Tok(t, s, nm) == [t |-> t, s |-> s, nm |-> nm]

\* "<id> /* <name> in Sources */"
HSrc(id, nm) == Tok("HSRC", id, nm)
\* "<id> /* <name> */"
HRef(id, nm) == Tok("HREF", id, nm)
\* text without a brace, a comma-newline or an identifier; nm is the file name in it
Txt(s, nm) == Tok("TXT", s, nm)
EQ == Tok("LIT", " = {", "")
CLOSE == Tok("LIT", "};\n", "")
COMMA == Tok("LIT", ",\n", "")
IND2 == Txt("\t\t", "")
IND4 == Txt("\t\t\t\t", "")

\* The token holds the character "}".
HasBrace(tok) == tok.t = "LIT" /\ tok.s = "};\n"

Impl == "PinyinServiceImpl.swift"
OpenAI == "PinyinServiceOpenAI.swift"
Chinese == "ChineseProcessingService.swift"
MockOpenAI == "MockPinyinServiceOpenAI.swift"
MockChinese == "MockChineseProcessingService.swift"
Other == "OCRService.swift"

\* Python's `b in a` on the file names of the model.
NameContains(a, b) ==
  \/ a = b
  \/ a = MockOpenAI /\ b = OpenAI
  \/ a = MockChinese /\ b = Chinese

\* A presence check that compares whole file names.
Present_WholeName(name, buf) == \E i \in 1..Len(buf) : buf[i].nm = name

\* "<name> in content" of the presence checks
Present(name, buf) == \E i \in 1..Len(buf) : NameContains(buf[i].nm, name)

\* One PBXBuildFile record, as the f-strings build_file_addition and share_ext_addition write it.
BuildRec(bid, nm, fid) ==
  << IND2, HSrc(bid, nm), EQ, Txt("isa = PBXBuildFile; fileRef = ", ""), HRef(fid, nm),
     Txt("; ", ""), CLOSE >>

\* One PBXFileReference record, as file_ref_addition writes it.
FileRefRec(fid, nm) ==
  << IND2, HRef(fid, nm), EQ,
     Txt("isa = PBXFileReference; lastKnownFileType = sourcecode.swift; path = ; sourceTree = \"<group>\"; ", nm),
     CLOSE >>

\* One entry of a group's children, as services_addition writes it.
GroupEntry(fid, nm) == << IND4, HRef(fid, nm), COMMA >>

\* One entry of a build phase's files, as build_phase_addition writes it.
PhaseEntry(bid, nm) == << IND4, HSrc(bid, nm), COMMA >>

(***************************************************************************)
(* The two insertion scripts: identifiers, patterns, additions             *)
(***************************************************************************)
Scripts == {"add_pinyin_openai", "add_chinese_processing"}

\* The display name of the presence check and of the additions.
display_name(sc) == IF sc = "add_pinyin_openai" THEN OpenAI ELSE Chinese

file_ref_id(sc) ==
  IF sc = "add_pinyin_openai" THEN "3D9B1A201234567890123457" ELSE "3D9B1A301234567890123460"

\* add_pinyin_openai.py mints another identifier than add_chinese_processing.py looks for.
build_file_id_Other(sc) ==
  IF sc = "add_pinyin_openai" THEN "3D9B1A231234567890123458" ELSE "3D9B1A311234567890123461"

build_file_id(sc) ==
  IF sc = "add_pinyin_openai" THEN "3D9B1A211234567890123458" ELSE "3D9B1A311234567890123461"

build_file_id2 == "3D9B1A221234567890123459"

\* The re.sub calls of a script, in the order of the source.
Order(sc) ==
  IF sc = "add_pinyin_openai"
  THEN << "build_file", "share_ext", "file_ref", "services", "build_phase", "share_build" >>
  ELSE << "build_file", "file_ref", "services", "build_phase" >>

\* A pattern: the literal tokens it starts with, whether [^}]+ follows, the literal it ends with.
Pat(lits, span, tail) == [lits |-> lits, span |-> span, tail |-> tail]

build_file_pattern(sc) ==
  IF sc = "add_pinyin_openai"
  THEN Pat(<< HSrc("3D9B1A0E1234567890123456", Impl), EQ >>, TRUE, CLOSE)
  ELSE Pat(<< HSrc("3D9B1A211234567890123458", OpenAI), EQ >>, TRUE, CLOSE)

\* No " = {" after the comment: the character class starts right after "*/".
share_ext_pattern == Pat(<< HSrc("3D4F30C32C6FC87E002CC01C", Impl) >>, TRUE, CLOSE)

file_ref_pattern(sc) ==
  IF sc = "add_pinyin_openai"
  THEN Pat(<< HRef("3D9B1A0F1234567890123456", Impl), EQ >>, TRUE, CLOSE)
  ELSE Pat(<< HRef("3D9B1A201234567890123457", OpenAI), EQ >>, TRUE, CLOSE)

services_pattern(sc) ==
  IF sc = "add_pinyin_openai"
  THEN Pat(<< HRef("3D9B1A0F1234567890123456", Impl) >>, FALSE, COMMA)
  ELSE Pat(<< HRef("3D9B1A201234567890123457", OpenAI) >>, FALSE, COMMA)

build_phase_pattern(sc) ==
  IF sc = "add_pinyin_openai"
  THEN Pat(<< HSrc("3D9B1A0E1234567890123456", Impl) >>, FALSE, COMMA)
  ELSE Pat(<< HSrc("3D9B1A211234567890123458", OpenAI) >>, FALSE, COMMA)

\* An anchor on the entry the build_phase call of the same run inserts.
share_build_pattern_OnInserted ==
  Pat(<< HSrc("3D9B1A211234567890123458", OpenAI) >>, FALSE, COMMA)

share_build_pattern == Pat(<< HSrc("3D4F30C32C6FC87E002CC01C", Impl) >>, FALSE, COMMA)

build_file_addition(sc) == BuildRec(build_file_id(sc), display_name(sc), file_ref_id(sc))

share_ext_addition ==
  BuildRec(build_file_id2, display_name("add_pinyin_openai"), file_ref_id("add_pinyin_openai"))

file_ref_addition(sc) == FileRefRec(file_ref_id(sc), display_name(sc))

services_addition(sc) == GroupEntry(file_ref_id(sc), display_name(sc))

build_phase_addition(sc) == PhaseEntry(build_file_id(sc), display_name(sc))

share_build_addition == PhaseEntry(build_file_id2, display_name("add_pinyin_openai"))

Pattern(sc, sec) ==
  CASE sec = "build_file" -> build_file_pattern(sc)
    [] sec = "share_ext" -> share_ext_pattern
    [] sec = "file_ref" -> file_ref_pattern(sc)
    [] sec = "services" -> services_pattern(sc)
    [] sec = "build_phase" -> build_phase_pattern(sc)
    [] sec = "share_build" -> share_build_pattern

Addition(sc, sec) ==
  CASE sec = "build_file" -> build_file_addition(sc)
    [] sec = "share_ext" -> share_ext_addition
    [] sec = "file_ref" -> file_ref_addition(sc)
    [] sec = "services" -> services_addition(sc)
    [] sec = "build_phase" -> build_phase_addition(sc)
    [] sec = "share_build" -> share_build_addition

(***************************************************************************)
(* re.sub(pattern, r'\1' + addition, content)                              *)
(***************************************************************************)
\* The least element of a non-empty set of numbers, 0 for the empty set.
Least(S) == IF S = {} THEN 0 ELSE CHOOSE x \in S : \A y \in S : x <= y

\* Index of the first token from j on that holds "}", 0 when there is none.
FirstBrace(buf, j) == Least({ k \in j..Len(buf) : HasBrace(buf[k]) })

\* Index of the last token of the match of pat that starts at token i, 0 when
\* pat does not match there.  [^}]+ takes every character up to the next "}",
\* needs at least one, and the text from that "}" on must be "};\n".
MatchEnd(pat, buf, i) ==
  LET n == Len(pat.lits)
      j == i + n
  IN  IF j - 1 > Len(buf) \/ SubSeq(buf, i, j - 1) # pat.lits THEN 0
      ELSE IF ~pat.span
           THEN IF j <= Len(buf) /\ buf[j] = pat.tail THEN j ELSE 0
           ELSE LET k == FirstBrace(buf, j)
                IN  IF k > j /\ buf[k] = pat.tail THEN k ELSE 0

\* Index of the first token from i on at which pat matches, 0 when there is none.
NextMatch(pat, buf, i) == Least({ h \in i..Len(buf) : MatchEnd(pat, buf, h) > 0 })

\* The scan of re.sub from token i on: every match, leftmost first and none
\* overlapping an earlier one, is kept (\1) and followed by the addition.
RECURSIVE SubFrom(_, _, _, _)
SubFrom(pat, add, buf, i) ==
  LET h == NextMatch(pat, buf, i)
      e == MatchEnd(pat, buf, h)
  IN  IF h = 0 THEN SubSeq(buf, i, Len(buf))
      ELSE SubSeq(buf, i, e) \o add \o SubFrom(pat, add, buf, e + 1)

Sub(pat, add, buf) == SubFrom(pat, add, buf, 1)

\* The token indexes at which the scan of re.sub finds a match.
RECURSIVE MatchesFrom(_, _, _)
MatchesFrom(pat, buf, i) ==
  LET h == NextMatch(pat, buf, i)
  IN  IF h = 0 THEN {} ELSE {h} \cup MatchesFrom(pat, buf, MatchEnd(pat, buf, h) + 1)

Matches(pat, buf) == MatchesFrom(pat, buf, 1)

\* The range of a sequence.
Range(q) == { q[i] : i \in 1..Len(q) }

\* The first re.sub call of the script not executed yet.
NextSection(sc, done) ==
  LET o == Order(sc)
      k == CHOOSE i \in 1..Len(o) : o[i] \notin done /\ \A h \in 1..(i - 1) : o[h] \in done
  IN  o[k]

\* content after the first k re.sub calls of the script, in the order of the source.
RECURSIVE AfterSubs(_, _, _)
AfterSubs(sc, buf, k) ==
  IF k = 0 THEN buf
  ELSE Sub(Pattern(sc, Order(sc)[k]), Addition(sc, Order(sc)[k]), AfterSubs(sc, buf, k - 1))

(***************************************************************************)
(* Input manifests                                                         *)
(***************************************************************************)
\* n copies of the token sequence q
RECURSIVE Rep(_, _)
Rep(q, n) == IF n = 0 THEN << >> ELSE q \o Rep(q, n - 1)

\* The places of a manifest that hold a record of PinyinServiceImpl.swift.
Slots == {"bf_main", "bf_share", "fr", "grp", "ph_main", "ph_share"}

ImplBuild == "3D9B1A0E1234567890123456"
ImplShare == "3D4F30C32C6FC87E002CC01C"
ImplRef == "3D9B1A0F1234567890123456"
OtherBuild == "3D4F30A12C6FC87E002CC01C"
OtherShare == "3D4F30A22C6FC87E002CC01C"
OtherRef == "3D4F30A02C6FC87E002CC01C"

GroupOpen ==
  << IND2, HRef("3D4F30B02C6FC87E002CC01C", "Services"), EQ,
     Txt("\n\t\t\tisa = PBXGroup;\n\t\t\tchildren = (\n", "") >>
GroupClose ==
  << Txt("\t\t\t);\n\t\t\tpath = Services;\n\t\t\tsourceTree = \"<group>\";\n\t\t", ""), CLOSE >>
PhaseOpen(id) ==
  << IND2, HRef(id, "Sources"), EQ,
     Txt("\n\t\t\tisa = PBXSourcesBuildPhase;\n\t\t\tbuildActionMask = 2147483647;\n\t\t\tfiles = (\n", "") >>
PhaseClose ==
  << Txt("\t\t\t);\n\t\t\trunOnlyForDeploymentPostprocessing = 0;\n\t\t", ""), CLOSE >>

\* A file reference of a file whose name holds a display name, or nothing.
ExtraRec(extra) ==
  CASE extra = "mock_openai" -> FileRefRec("3D4F30D02C6FC87E002CC01C", MockOpenAI)
    [] extra = "mock_chinese" -> FileRefRec("3D4F30D12C6FC87E002CC01C", MockChinese)
    [] OTHER -> << >>

\* A project.pbxproj with n[s] records of PinyinServiceImpl.swift in slot s, each
\* section closed by a record of another file: the PBXBuildFile section, the
\* PBXFileReference section, the Services group, the Sources phase of the app
\* and the Sources phase of the share extension.
Manifest(n, extra) ==
     << Txt("/* Begin PBXBuildFile section */\n", "") >>
  \o Rep(BuildRec(ImplBuild, Impl, ImplRef), n["bf_main"])
  \o BuildRec(OtherBuild, Other, OtherRef)
  \o Rep(BuildRec(ImplShare, Impl, ImplRef), n["bf_share"])
  \o BuildRec(OtherShare, Other, OtherRef)
  \o << Txt("/* End PBXBuildFile section */\n\n/* Begin PBXFileReference section */\n", "") >>
  \o Rep(FileRefRec(ImplRef, Impl), n["fr"])
  \o FileRefRec(OtherRef, Other)
  \o ExtraRec(extra)
  \o << Txt("/* End PBXFileReference section */\n\n/* Begin PBXGroup section */\n", "") >>
  \o GroupOpen
  \o Rep(GroupEntry(ImplRef, Impl), n["grp"])
  \o GroupEntry(OtherRef, Other)
  \o GroupClose
  \o << Txt("/* End PBXGroup section */\n\n/* Begin PBXSourcesBuildPhase section */\n", "") >>
  \o PhaseOpen("3D4F30E02C6FC87E002CC01C")
  \o Rep(PhaseEntry(ImplBuild, Impl), n["ph_main"])
  \o PhaseEntry(OtherBuild, Other)
  \o PhaseClose
  \o PhaseOpen("3D4F30E12C6FC87E002CC01C")
  \o Rep(PhaseEntry(ImplShare, Impl), n["ph_share"])
  \o PhaseEntry(OtherShare, Other)
  \o PhaseClose
  \o << Txt("/* End PBXSourcesBuildPhase section */\n", "") >>

\* The slots in `present` hold one record each, the slot `dup` holds MaxCopies.
Copies(present, dup) ==
  [s \in Slots |-> IF s \notin present THEN 0 ELSE IF s = dup THEN MaxCopies ELSE 1]

Manifests ==
  { Manifest(Copies(present, dup), extra) :
      present \in SUBSET Slots, dup \in Slots \cup {"none"},
      extra \in {"none", "mock_openai", "mock_chinese"} }

NoRun == [script |-> "none", input |-> << >>, output |-> << >>, message |-> "none"]

(***************************************************************************)
(* The insertion scripts, statement by statement                           *)
(***************************************************************************)
Init ==
  /\ disk \in Manifests
  /\ content = << >>
  /\ script = "none"
  /\ pc = "idle"
  /\ applied = {}
  /\ exit_code = -1
  /\ message = "none"
  /\ input = << >>
  /\ wrote = FALSE
  /\ prev = NoRun

\* A script is started and reads the file: with open(project_file, 'r') ... f.read()
Read(sc) ==
  /\ pc \in {"idle", "exit"}
  /\ script' = sc
  /\ content' = disk
  /\ input' = disk
  /\ pc' = "check"
  /\ applied' = {}
  /\ exit_code' = -1
  /\ message' = "none"
  /\ wrote' = FALSE
  /\ prev' = IF pc = "idle" THEN NoRun
             ELSE [script |-> script, input |-> input, output |-> disk, message |-> message]
  /\ UNCHANGED disk

\* The presence check without its exit(0).
AlreadyInProject_NoExit ==
  /\ pc = "check"
  /\ Present(display_name(script), content)
  /\ message' = "already in project"
  /\ pc' = "subs"
  /\ UNCHANGED <<disk, content, script, applied, exit_code, input, wrote, prev>>

\* if "<name>.swift" in content: print(... already in project); exit(0)
AlreadyInProject ==
  /\ pc = "check"
  /\ Present(display_name(script), content)
  /\ message' = "already in project"
  /\ exit_code' = 0
  /\ pc' = "exit"
  /\ UNCHANGED <<disk, content, script, applied, input, wrote, prev>>

\* the presence check falls through
NotInProject ==
  /\ pc = "check"
  /\ ~Present(display_name(script), content)
  /\ pc' = "subs"
  /\ UNCHANGED <<disk, content, script, applied, exit_code, message, input, wrote, prev>>

\* content = re.sub(<section>_pattern, r'\1' + <section>_addition, content)
Substitute ==
  /\ pc = "subs"
  /\ applied # Range(Order(script))
  /\ LET sec == NextSection(script, applied)
     IN  /\ content' = Sub(Pattern(script, sec), Addition(script, sec), content)
         /\ applied' = applied \cup {sec}
  /\ UNCHANGED <<disk, script, pc, exit_code, message, input, wrote, prev>>

\* with open(project_file, 'w') as f: f.write(content)
Write ==
  /\ pc = "subs"
  /\ applied = Range(Order(script))
  /\ disk' = content
  /\ wrote' = TRUE
  /\ pc' = "print"
  /\ UNCHANGED <<content, script, applied, exit_code, message, input, prev>>

\* print("Added ... to project"), and the script ends
Added ==
  /\ pc = "print"
  /\ message' = "Added to project"
  /\ exit_code' = 0
  /\ pc' = "exit"
  /\ UNCHANGED <<disk, content, script, applied, input, wrote, prev>>

Next ==
  \/ \E sc \in Scripts : Read(sc)
  \/ AlreadyInProject
  \/ NotInProject
  \/ Substitute
  \/ Write
  \/ Added

Spec == Init /\ [][Next]_vars

\* One re.sub call of the script that was not executed yet, whichever.
SubstituteAny ==
  /\ pc = "subs"
  /\ \E sec \in Range(Order(script)) \ applied :
       /\ content' = Sub(Pattern(script, sec), Addition(script, sec), content)
       /\ applied' = applied \cup {sec}
  /\ UNCHANGED <<disk, script, pc, exit_code, message, input, wrote, prev>>

NextAnyOrder ==
  \/ \E sc \in Scripts : Read(sc)
  \/ AlreadyInProject
  \/ NotInProject
  \/ SubstituteAny
  \/ Write
  \/ Added

\* The scripts with their re.sub calls executed in any order.
SpecAnyOrder == Init /\ [][NextAnyOrder]_vars

(***************************************************************************)
(* The two log scripts: fix_logging.py and fix_app_logging.py               *)
(*                                                                         *)
(* A Swift file is some code, one log statement, some code.  The statement *)
(* is cut into "logger.", the level, "(", the quotes, the pieces of the    *)
(* message and ")".  A piece is a word with the blank that follows it, so  *)
(* no marker of a rule lies across two pieces.                             *)
(***************************************************************************)
LogScripts == {"fix_logging", "fix_app_logging"}

LOGGER == Tok("LIT", "logger.", "")
LV(level) == Tok("LV", level, "")
LP == Tok("LIT", "(", "")
RP == Tok("LIT", ")", "")
QUOTE == Tok("LIT", "\"", "")
Piece(text) == Tok("PIECE", text, "")
\* a quote inside the message, written \" in Swift
EscQuote == "\\\" "

\* The token holds the character '"'.
HasQuote(tok) == tok = QUOTE \/ (tok.t = "PIECE" /\ tok.s = EscQuote)

\* The pieces a message of the file of a script is made of.
Pieces(sc) ==
  IF sc = "fix_logging"
  THEN {"TTSService: ", "Error ", "FAILED ", "Invalid ", "not configured ", "generateAudio ",
        "request ", EscQuote}
  ELSE {"AppState: ", "Error ", "failed ", "No ", "found ", "Found ", EscQuote}

\* re.search(marker, text) for a piece and the marker of a rule, ic telling re.IGNORECASE.
Contains(text, m, ic) ==
  \/ <<text, m>> \in
       { <<"Error ", "Error">>, <<"not configured ", "not configured">>,
         <<"failed ", "failed">>, <<"Found ", "Found">>, <<"No ", "No ">> }
  \/ ic /\ <<text, m>> \in
       { <<"Error ", "error">>, <<"FAILED ", "failed">>, <<"FAILED ", "Failed">>,
         <<"Invalid ", "invalid">>,
         <<"failed ", "Failed">>, <<"Found ", "found">>, <<"found ", "found">>,
         <<"found ", "Found">> }

\* A rule: what the message must hold, and the level the statement gets.
\*   "malformed"  logger\."([^"]+)"\)
\*   "contains"   logger\.debug\("([^"]*<m>[^"]*)"\)
\*   "between"    logger\.debug\("([^"]*<m>[^"]*<m2>[^"]*)"\), <m2> starting with a blank
\*   "tts"        logger\.debug\("(TTS[^:]*: <m>[^"]*)"\)
\*   "prefix"     (logger\.\w+\()"<m>
Rule(kind, m, m2, ic, level) == [kind |-> kind, m |-> m, m2 |-> m2, ic |-> ic, level |-> level]

\* An order of the rules with "not configured" before the error markers.
Rules_WarningFirst(sc) ==
  IF sc = "fix_logging"
  THEN << Rule("malformed", "", "", FALSE, "debug"),
          Rule("contains", "not configured", "", TRUE, "warning"),
          Rule("contains", "error", "", TRUE, "error"),
          Rule("contains", "failed", "", TRUE, "error"),
          Rule("contains", "invalid", "", TRUE, "error"),
          Rule("contains", "not properly", "", TRUE, "warning"),
          Rule("tts", "generateAudio", "", FALSE, "info"),
          Rule("tts", "Received", "", FALSE, "info"),
          Rule("tts", "Audio saved", "", FALSE, "info"),
          Rule("prefix", "TTSService: ", "", FALSE, "") >>
  ELSE << Rule("malformed", "", "", FALSE, "debug"),
          Rule("between", "No ", "found", TRUE, "info"),
          Rule("contains", "Error", "", TRUE, "error"),
          Rule("contains", "Failed", "", TRUE, "error"),
          Rule("contains", "Processing", "", FALSE, "info"),
          Rule("contains", "Looking for", "", FALSE, "debug"),
          Rule("contains", "Found", "", FALSE, "info"),
          Rule("contains", "Successfully", "", FALSE, "info"),
          Rule("contains", "loaded", "", FALSE, "info"),
          Rule("contains", "exists", "", FALSE, "debug"),
          Rule("contains", "Cleaned up", "", FALSE, "info"),
          Rule("prefix", "AppState: ", "", FALSE, "") >>

\* The re.sub calls of a log script, in the order of the source.
Rules(sc) ==
  IF sc = "fix_logging"
  THEN << Rule("malformed", "", "", FALSE, "debug"),
          Rule("contains", "error", "", TRUE, "error"),
          Rule("contains", "failed", "", TRUE, "error"),
          Rule("contains", "invalid", "", TRUE, "error"),
          Rule("contains", "not configured", "", TRUE, "warning"),
          Rule("contains", "not properly", "", TRUE, "warning"),
          Rule("tts", "generateAudio", "", FALSE, "info"),
          Rule("tts", "Received", "", FALSE, "info"),
          Rule("tts", "Audio saved", "", FALSE, "info"),
          Rule("prefix", "TTSService: ", "", FALSE, "") >>
  ELSE << Rule("malformed", "", "", FALSE, "debug"),
          Rule("contains", "Error", "", TRUE, "error"),
          Rule("contains", "Failed", "", TRUE, "error"),
          Rule("between", "No ", "found", TRUE, "info"),
          Rule("contains", "Processing", "", FALSE, "info"),
          Rule("contains", "Looking for", "", FALSE, "debug"),
          Rule("contains", "Found", "", FALSE, "info"),
          Rule("contains", "Successfully", "", FALSE, "info"),
          Rule("contains", "loaded", "", FALSE, "info"),
          Rule("contains", "exists", "", FALSE, "debug"),
          Rule("contains", "Cleaned up", "", FALSE, "info"),
          Rule("prefix", "AppState: ", "", FALSE, "") >>

\* The literal tokens a rule's pattern starts with, up to the opening quote.
RuleHead(r) == IF r.kind = "malformed" THEN << LOGGER, QUOTE >> ELSE << LOGGER, LV("debug"), LP, QUOTE >>

\* Whether the group ([^"]*...[^"]*) of the rule matches the whole message msg.
GroupMatches(r, msg) ==
  CASE r.kind = "malformed" -> Len(msg) >= 1
    [] r.kind = "contains" -> \E i \in 1..Len(msg) : Contains(msg[i].s, r.m, r.ic)
    [] r.kind = "between" ->
         \E i, j \in 1..Len(msg) :
           i + 2 <= j /\ Contains(msg[i].s, r.m, r.ic) /\ Contains(msg[j].s, r.m2, r.ic)
    [] r.kind = "tts" ->
         Len(msg) >= 2 /\ msg[1].s = "TTSService: " /\ msg[2].s = r.m \o " "

\* Index of the last token of the match of rule r that starts at token i, 0 when
\* there is none.  [^"] takes no quote, so the message ends at the first token
\* with a quote, which must be the closing quote, followed by ")".
LogMatchEnd(r, buf, i) ==
  IF r.kind = "prefix"
  THEN IF /\ i + 4 <= Len(buf)
          /\ buf[i] = LOGGER /\ buf[i + 1].t = "LV" /\ buf[i + 2] = LP /\ buf[i + 3] = QUOTE
          /\ buf[i + 4] = Piece(r.m)
       THEN i + 4 ELSE 0
  ELSE LET n == Len(RuleHead(r))
           j == i + n
           k == Least({ h \in j..Len(buf) : HasQuote(buf[h]) })
       IN  IF /\ j - 1 <= Len(buf)
              /\ SubSeq(buf, i, j - 1) = RuleHead(r)
              /\ k > 0 /\ buf[k] = QUOTE
              /\ k + 1 <= Len(buf) /\ buf[k + 1] = RP
              /\ GroupMatches(r, SubSeq(buf, j, k - 1))
           THEN k + 1 ELSE 0

\* What re.sub puts in the place of the match buf[i..e] of rule r.
LogReplacement(r, buf, i, e) ==
  IF r.kind = "prefix" THEN SubSeq(buf, i, i + 3)
  ELSE << LOGGER, LV(r.level), LP, QUOTE >> \o SubSeq(buf, i + Len(RuleHead(r)), e)

\* re.sub(rule, replacement, content) from token i on
RECURSIVE LogSubFrom(_, _, _)
LogSubFrom(r, buf, i) ==
  LET h == Least({ x \in i..Len(buf) : LogMatchEnd(r, buf, x) > 0 })
      e == LogMatchEnd(r, buf, h)
  IN  IF h = 0 THEN SubSeq(buf, i, Len(buf))
      ELSE SubSeq(buf, i, h - 1) \o LogReplacement(r, buf, h, e) \o LogSubFrom(r, buf, e + 1)

LogSub(r, buf) == LogSubFrom(r, buf, 1)

\* The messages of at most n pieces.
RECURSIVE Messages(_, _)
Messages(sc, n) ==
  IF n = 0 THEN { << >> }
  ELSE Messages(sc, n - 1) \cup
       { Append(m, Piece(x)) : m \in { y \in Messages(sc, n - 1) : Len(y) = n - 1 }, x \in Pieces(sc) }

\* The statement with the given start and message.
Statement(head, msg) == head \o msg \o << QUOTE, RP >>

StatementHeads ==
  { << LOGGER, QUOTE >>, << LOGGER, LV("debug"), LP, QUOTE >>, << LOGGER, LV("info"), LP, QUOTE >> }

\* The Swift files given to a log script.
SwiftFiles(sc) ==
  { << Txt("func run() {\n    ", "") >> \o Statement(h, m) \o << Txt("\n}\n", "") >> :
      h \in StatementHeads, m \in Messages(sc, MaxMsgLen) }

InitLog ==
  /\ script \in LogScripts
  /\ disk \in SwiftFiles(script)
  /\ content = << >>
  /\ pc = "idle"
  /\ applied = {}
  /\ exit_code = -1
  /\ message = "none"
  /\ input = << >>
  /\ wrote = FALSE
  /\ prev = NoRun

\* with open(file_path, 'r') as f: content = f.read()
LogRead ==
  /\ pc \in {"idle", "exit"}
  /\ content' = disk
  /\ input' = disk
  /\ pc' = "rules"
  /\ applied' = {}
  /\ exit_code' = -1
  /\ message' = "none"
  /\ wrote' = FALSE
  /\ UNCHANGED <<disk, script, prev>>

\* content = re.sub(...): the next rule of the script
LogRule ==
  /\ pc = "rules"
  /\ Cardinality(applied) < Len(Rules(script))
  /\ LET k == Cardinality(applied) + 1
     IN  /\ content' = LogSub(Rules(script)[k], content)
         /\ applied' = applied \cup {k}
  /\ UNCHANGED <<disk, script, pc, exit_code, message, input, wrote, prev>>

\* with open(file_path, 'w') as f: f.write(content)
LogWrite ==
  /\ pc = "rules"
  /\ Cardinality(applied) = Len(Rules(script))
  /\ disk' = content
  /\ wrote' = TRUE
  /\ pc' = "print"
  /\ UNCHANGED <<content, script, applied, exit_code, message, input, prev>>

\* print("Fixed logging in ..."), and the script ends
LogFixed ==
  /\ pc = "print"
  /\ message' = "Fixed logging"
  /\ exit_code' = 0
  /\ pc' = "exit"
  /\ UNCHANGED <<disk, content, script, applied, input, wrote, prev>>

NextLog ==
  \/ LogRead
  \/ LogRule
  \/ LogWrite
  \/ LogFixed

SpecLog == InitLog /\ [][NextLog]_vars

(***************************************************************************)
(* Properties of the insertion scripts                                     *)
(***************************************************************************)
\* The file name occurs somewhere in the text.
Occurs(name, buf) ==
  \E i \in 1..Len(buf) :
    \/ buf[i].nm = name
    \/ buf[i].nm = MockOpenAI /\ name = OpenAI
    \/ buf[i].nm = MockChinese /\ name = Chinese

\* The token indexes at which the token sequence q starts in buf.
Positions(buf, q) ==
  { p \in 1..Len(buf) : p + Len(q) - 1 <= Len(buf) /\ SubSeq(buf, p, p + Len(q) - 1) = q }

\* The number of places where token b directly follows token a.
CountPair(buf, a, b) ==
  Cardinality({ i \in 1..(Len(buf) - 1) : buf[i] = a /\ buf[i + 1] = b })

\* C1: when the display name of the running insertion script occurs anywhere
\* in the text it read, the run makes no substitution, does not write, leaves
\* the file as it was read and ends with status 0 and the "already in project"
\* message.
C1_PresenceGate ==
  (script \in Scripts /\ pc # "check" /\ Occurs(display_name(script), input))
    => /\ pc = "exit"
       /\ applied = {}
       /\ ~wrote
       /\ content = input
       /\ disk = input
       /\ exit_code = 0
       /\ message = "already in project"

\* A run of add_pinyin_openai.py stopped by a name that only holds the display name.
C1_Witness ==
  /\ script = "add_pinyin_openai"
  /\ pc = "exit"
  /\ message = "already in project"
  /\ \E i \in 1..Len(input) : input[i].nm = MockOpenAI
  /\ \A i \in 1..Len(input) : input[i].nm # OpenAI

\* C2 as stated: for every manifest the second of two runs of the same script
\* leaves the file as the first left it, and takes the already-present branch.
C2_SecondRunAlwaysNoOp ==
  (script \in Scripts /\ pc = "exit" /\ prev.script = script)
    => /\ disk = prev.output
       /\ message = "already in project"
       /\ applied = {}
       /\ ~wrote

\* C2 amended: the second of two runs of the same script leaves the file as
\* the first left it, and it takes the already-present branch when the first
\* run took it or inserted a record.
C2_TwoRuns ==
  (script \in Scripts /\ pc = "exit" /\ prev.script = script)
    => /\ disk = prev.output
       /\ (prev.message = "already in project" \/ prev.output # prev.input)
            => (message = "already in project" /\ applied = {} /\ ~wrote)

\* The second run of a script whose first run inserted records.
C2_Witness ==
  /\ script \in Scripts
  /\ pc = "exit"
  /\ prev.script = script
  /\ prev.output # prev.input
  /\ message = "already in project"
  /\ disk = prev.output

\* The k-th re.sub call of the run finds no match / more than one match.
NoMatch(sc, buf, k) == Matches(Pattern(sc, Order(sc)[k]), AfterSubs(sc, buf, k - 1)) = {}
ManyMatches(sc, buf, k) ==
  Cardinality(Matches(Pattern(sc, Order(sc)[k]), AfterSubs(sc, buf, k - 1))) > 1

\* C3: a run that passed the presence check and in which some anchor pattern
\* matches nowhere ends with a failure status, without the "Added" message,
\* and with the file as it was read.
C3_AnchorFailureSafety ==
  (/\ script \in Scripts
   /\ pc = "exit"
   /\ ~Occurs(display_name(script), input)
   /\ \E k \in 1..Len(Order(script)) : NoMatch(script, input, k))
    => /\ exit_code # 0
       /\ message # "Added to project"
       /\ disk = input

\* C7: a run that passed the presence check and in which some anchor pattern
\* matches at more than one place ends with a failure and writes no changed file.
C7_AmbiguousAnchor ==
  (/\ script \in Scripts
   /\ pc = "exit"
   /\ ~Occurs(display_name(script), input)
   /\ \E k \in 1..Len(Order(script)) : ManyMatches(script, input, k))
    => /\ exit_code # 0
       /\ message # "Added to project"
       /\ disk = input

\* The number of records (mark = EQ) or list entries (mark = COMMA) whose
\* identifier is id, t telling the two forms of the comment apart.
CountKey(buf, t, id, mark) ==
  Cardinality({ i \in 1..(Len(buf) - 1) : buf[i].t = t /\ buf[i].s = id /\ buf[i + 1] = mark })

\* What follows the anchor's identifier and comment in the section a re.sub call is for.
RecordMark(sec) == IF sec \in {"build_file", "share_ext", "file_ref"} THEN EQ ELSE COMMA

\* The anchor entity has exactly one record in the section of every re.sub call of the script.
AnchorsOnce(sc, buf) ==
  \A k \in 1..Len(Order(sc)) :
    LET sec == Order(sc)[k]
    IN  CountPair(buf, Pattern(sc, sec).lits[1], RecordMark(sec)) = 1

BuildIds(sc) ==
  IF sc = "add_pinyin_openai" THEN {build_file_id(sc), build_file_id2} ELSE {build_file_id(sc)}

\* C4: after a run that wrote, on a manifest without the entity and with one
\* record of the anchor entity per section, file_ref_id is the key of exactly
\* one PBXFileReference record, stands in exactly one group entry and is the
\* fileRef of every PBXBuildFile record of the entity, and every build
\* identifier is the key of exactly one PBXBuildFile record and stands in
\* exactly one build phase entry.
C4_ReferentialConsistency ==
  (/\ script \in Scripts
   /\ pc = "exit"
   /\ wrote
   /\ ~Occurs(display_name(script), input)
   /\ AnchorsOnce(script, input))
    => LET nm == display_name(script)
           fid == file_ref_id(script)
       IN  /\ CountKey(disk, "HREF", fid, EQ) = 1
           /\ CountKey(disk, "HREF", fid, COMMA) = 1
           /\ \A i \in 1..(Len(disk) - 3) :
                (disk[i].t = "HSRC" /\ disk[i].nm = nm /\ disk[i + 1] = EQ)
                  => disk[i + 3] = HRef(fid, nm)
           /\ \A b \in BuildIds(script) :
                /\ CountKey(disk, "HSRC", b, EQ) = 1
                /\ CountKey(disk, "HSRC", b, COMMA) = 1

\* The tokens before index p are a record of the anchor entity in the section of sec.
AfterAnchorRecord(buf, p, sc, sec) ==
  LET head == Pattern(sc, sec).lits[1]
  IN  IF RecordMark(sec) = EQ
      THEN \E i \in 1..(p - 3) :
             /\ buf[i] = head
             /\ buf[i + 1] = EQ
             /\ buf[p - 1] = CLOSE
             /\ \A k \in i..(p - 2) : ~HasBrace(buf[k])
      ELSE p >= 3 /\ buf[p - 2] = head /\ buf[p - 1] = COMMA

\* C5: wherever a re.sub call of the run has put its new record, the record
\* stands directly after a record of the anchor entity in the section the call is for.
C5_AnchorLocality ==
  (script \in Scripts /\ ~Occurs(display_name(script), input))
    => \A sec \in applied :
         \A p \in Positions(content, Addition(script, sec)) :
           AfterAnchorRecord(content, p, script, sec)

\* buf without the occurrences of the token sequence q
RECURSIVE Strip(_, _, _)
Strip(buf, q, i) ==
  LET h == Least({ p \in Positions(buf, q) : p >= i })
  IN  IF h = 0 THEN SubSeq(buf, i, Len(buf))
      ELSE SubSeq(buf, i, h - 1) \o Strip(buf, q, h + Len(q))

\* buf without the records the first k re.sub calls of the script insert
RECURSIVE StripAll(_, _, _)
StripAll(sc, buf, k) ==
  IF k = 0 THEN buf ELSE Strip(StripAll(sc, buf, k - 1), Addition(sc, Order(sc)[k]), 1)

\* The section of the manifest token p lies in: 1 PBXBuildFile, 2 PBXFileReference,
\* 3 PBXGroup, 4 PBXSourcesBuildPhase.
SectionAt(buf, p) ==
  Cardinality({ i \in 1..p : buf[i].t = "TXT" /\ buf[i].s \in
      { "/* Begin PBXBuildFile section */\n",
        "/* End PBXBuildFile section */\n\n/* Begin PBXFileReference section */\n",
        "/* End PBXFileReference section */\n\n/* Begin PBXGroup section */\n",
        "/* End PBXGroup section */\n\n/* Begin PBXSourcesBuildPhase section */\n" } })

ExpectedSection(sec) ==
  CASE sec \in {"build_file", "share_ext"} -> 1
    [] sec = "file_ref" -> 2
    [] sec = "services" -> 3
    [] OTHER -> 4

\* C6, on the manifests with one record of the anchor entity per section:
\* after a run that wrote, the file without the inserted records is the text
\* that was read, and every re.sub call of the script has inserted one block,
\* in the section it is for.
C6_NonInterference ==
  (script \in Scripts /\ pc = "exit" /\ wrote /\ AnchorsOnce(script, input))
    => /\ StripAll(script, disk, Len(Order(script))) = input
       /\ \A sec \in Range(Order(script)) :
            /\ Cardinality(Positions(disk, Addition(script, sec))) = 1
            /\ \A p \in Positions(disk, Addition(script, sec)) :
                 SectionAt(disk, p) = ExpectedSection(sec)

\* The re.sub calls of add_chinese_processing.py and, for each, the record of
\* add_pinyin_openai.py it is anchored on.
MainSections == {"build_file", "file_ref", "services", "build_phase"}

\* C10: when add_chinese_processing.py gets past its presence check on a
\* manifest that holds, once each, the four records add_pinyin_openai.py
\* writes for the app target, each of its four patterns matches exactly once,
\* at that record, and the written file holds exactly one new record per
\* section, directly after the PinyinServiceOpenAI record; the five
\* identifiers of the two scripts differ from each other.
C10_Chaining ==
  (/\ script = "add_chinese_processing"
   /\ pc = "exit"
   /\ wrote
   /\ prev.script = "add_pinyin_openai"
   /\ prev.message = "Added to project"
   /\ \A sec \in MainSections :
        Cardinality(Positions(input, Addition("add_pinyin_openai", sec))) = 1)
    => /\ \A k \in 1..Len(Order(script)) :
            LET sec == Order(script)[k]
                buf == AfterSubs(script, input, k - 1)
                anchor == Addition("add_pinyin_openai", sec)
            IN  /\ Cardinality(Matches(Pattern(script, sec), buf)) = 1
                /\ \A h \in Matches(Pattern(script, sec), buf) :
                     /\ h - 1 \in Positions(buf, anchor)
                     /\ MatchEnd(Pattern(script, sec), buf, h) = h + Len(anchor) - 2
       /\ \A sec \in MainSections :
            LET new == Addition(script, sec)
                anchor == Addition("add_pinyin_openai", sec)
            IN  /\ Cardinality(Positions(disk, new)) = 1
                /\ Positions(disk, anchor \o new) # {}
       /\ Cardinality({ file_ref_id("add_pinyin_openai"), build_file_id("add_pinyin_openai"),
                        build_file_id2, file_ref_id("add_chinese_processing"),
                        build_file_id("add_chinese_processing") }) = 5

\* add_chinese_processing.py has inserted after the records of a run of add_pinyin_openai.py.
C10_Witness ==
  /\ script = "add_chinese_processing"
  /\ pc = "exit"
  /\ wrote
  /\ prev.script = "add_pinyin_openai"
  /\ prev.message = "Added to project"
  /\ \A sec \in MainSections :
       /\ Cardinality(Positions(input, Addition("add_pinyin_openai", sec))) = 1
       /\ Positions(disk, Addition("add_pinyin_openai", sec) \o Addition(script, sec)) # {}

\* No token of a match of the k-th re.sub call, in the order of the source,
\* was inserted by an earlier call of the run.
MatchesOnlyOldText(sc, buf, k) ==
  LET pat == Pattern(sc, Order(sc)[k])
      cur == AfterSubs(sc, buf, k - 1)
  IN  \A h \in Matches(pat, cur) :
        \A i \in h..MatchEnd(pat, cur, h) : cur[i].nm # display_name(sc)

\* C9: in a run, whatever the order of the re.sub calls, no pattern finds its
\* anchor in text the run has inserted (a match starts on a token of the
\* input); in the order of the source no token of a match was inserted by an
\* earlier call; and when all re.sub calls of the script have been
\* executed, in whatever order, content is what the order of the source gives.
C9_SectionsCommute ==
  /\ (script \in Scripts /\ pc = "subs" /\ applied # {})
       => \A sec \in Range(Order(script)) \ applied :
            \A h \in 1..Len(content) :
              content[h].nm = display_name(script)
                => MatchEnd(Pattern(script, sec), content, h) = 0
  /\ (script \in Scripts /\ pc = "subs" /\ applied = {})
       => \A k \in 1..Len(Order(script)) : MatchesOnlyOldText(script, input, k)
  /\ (script \in Scripts /\ pc = "subs" /\ applied = Range(Order(script)))
       => content = AfterSubs(script, input, Len(Order(script)))

\* share_build and services were executed first, and each has inserted its entry.
C9_Witness ==
  /\ script = "add_pinyin_openai"
  /\ pc = "subs"
  /\ applied = {"share_build", "services"}
  /\ Positions(content, share_build_addition) # {}
  /\ Positions(content, services_addition(script)) # {}

(***************************************************************************)
(* Properties of the log scripts                                           *)
(***************************************************************************)
\* The statement of a Swift file starts at token 2; its level, "malformed" for logger."msg").
StmtLevel(buf) == IF buf[3].t = "LV" THEN buf[3].s ELSE "malformed"

\* The pieces of the statement's message.
StmtMsg(buf) ==
  IF buf[3].t = "LV" THEN SubSeq(buf, 6, Len(buf) - 3) ELSE SubSeq(buf, 4, Len(buf) - 3)

\* The statement is a call logger.<level>("msg").
WellFormed(buf) ==
  /\ buf[2] = LOGGER
  /\ buf[3].t = "LV"
  /\ buf[4] = LP
  /\ buf[5] = QUOTE
  /\ buf[Len(buf) - 2] = QUOTE
  /\ buf[Len(buf) - 1] = RP

\* The message holds the word, in any letter case.
Marked(msg, word) ==
  \E i \in 1..Len(msg) :
    <<msg[i].s, word>> \in
      { <<"Error ", "error">>, <<"FAILED ", "failed">>, <<"failed ", "failed">>,
        <<"Invalid ", "invalid">>, <<"not configured ", "not configured">> }

NoQuoteIn(msg) == \A i \in 1..Len(msg) : msg[i].s # EscQuote

\* C8 as stated, for the non-empty messages without a double quote: after the
\* pass every statement that was malformed or at debug level and whose
\* message holds "error" or "failed" is at error level, in
\* fix_logging.py every such statement whose message holds "not configured" is
\* at warning level, and every malformed statement is a well-formed call.
C8_SeverityRewriteAsStated ==
  (/\ script \in LogScripts
   /\ pc = "exit"
   /\ StmtLevel(input) \in {"malformed", "debug"}
   /\ NoQuoteIn(StmtMsg(input))
   /\ StmtMsg(input) # << >>)
    => LET msg == StmtMsg(input)
       IN  /\ (Marked(msg, "error") \/ Marked(msg, "failed")) => StmtLevel(disk) = "error"
           /\ (script = "fix_logging" /\ Marked(msg, "not configured"))
                => StmtLevel(disk) = "warning"
           /\ StmtLevel(input) = "malformed" => WellFormed(disk)

\* C8 amended: for a message without a double quote: "error" or "failed" gives
\* the error level; in fix_logging.py "not configured" gives the warning level
\* when the message holds none of "error", "failed", "invalid"; a malformed
\* statement with a non-empty message becomes a well-formed call.
C8_SeverityRewrite ==
  (script \in LogScripts /\ pc = "exit" /\ StmtLevel(input) \in {"malformed", "debug"})
    => LET msg == StmtMsg(input)
       IN  /\ (NoQuoteIn(msg) /\ (Marked(msg, "error") \/ Marked(msg, "failed")))
                => (WellFormed(disk) /\ StmtLevel(disk) = "error")
           /\ (/\ script = "fix_logging"
               /\ NoQuoteIn(msg)
               /\ Marked(msg, "not configured")
               /\ ~Marked(msg, "error") /\ ~Marked(msg, "failed") /\ ~Marked(msg, "invalid"))
                => (WellFormed(disk) /\ StmtLevel(disk) = "warning")
           /\ (StmtLevel(input) = "malformed" /\ NoQuoteIn(msg) /\ msg # << >>)
                => WellFormed(disk)

\* fix_logging.py has made an error call of a malformed statement with "FAILED".
C8_Witness ==
  /\ script = "fix_logging"
  /\ pc = "exit"
  /\ StmtLevel(input) = "malformed"
  /\ Marked(StmtMsg(input), "failed")
  /\ ~Marked(StmtMsg(input), "error")
  /\ WellFormed(disk)
  /\ StmtLevel(disk) = "error"

====
